---- MODULE Spec2Model ----
(***************************************************************************)
(* The worker pool of package concurrent: Pool, NewPool, Submit, Close,    *)
(* ActiveTasks.  Every caller of Submit and of Close is its own thread of  *)
(* control, and every accepted task runs on its own goroutine; the model   *)
(* interleaves their statements.                                           *)
(*                                                                         *)
(* The counter of package concurrent: Counter, NewCounter, Increment,      *)
(* Decrement, Add, Value, Reset, CompareAndSwap.  Every method is one      *)
(* call of sync/atomic on the one field, so every call is one step and the *)
(* model interleaves the calls of its callers.                             *)
(***************************************************************************)
EXTENDS Integers, FiniteSets, Sequences, TLC

\* Bounds of the model.
NumSubmitters == 3
NumClosers == 2
MaxLimit == 2
\* callers of the counter, and how many calls each of them makes
NumCallers == 2
MaxOps == 2
\* calls that may write the metrics collector
MaxMetricOps == 3
\* the width of the counter's integer in the model; the field is an int64,
\* and the model keeps its two's-complement wrap-around at a width TLC can
\* enumerate
IntBits == 4
\* how many pools exist side by side where several are modelled
NumPools == 2

Submitters == 1..NumSubmitters
Closers == 1..NumClosers
Callers == 1..NumCallers
PoolIds == 1..NumPools

\* int64, at the width of the model
Half == 2 ^ (IntBits - 1)
Ints == (0 - Half)..(Half - 1)
Wrap(x) == ((x + Half) % (2 * Half)) - Half

VARIABLES
    size,      \* cap(p.workers): the limit given to NewPool
    workers,   \* len(p.workers): permits held
    wg,        \* the counter of p.wg
    closed,    \* p.closed
    mu,        \* p.mu: Free or the thread of control that holds it
    spc,       \* spc[s]: where Submit call s stands
    result,    \* result[s]: what Submit call s returned
    task,      \* task[s]: where the goroutine of call s stands
    runs,      \* runs[s]: how many times the task body of call s was invoked
    cpc,       \* cpc[c]: where Close call c stands
    err,       \* err[s]: what the body of task s returned, when the body records it
    ctor,      \* where the call of NewPool stands
    value,     \* Counter.value
    start,     \* the value the counter was created with
    calls,     \* calls[k]: how many counter operations caller k has completed
    last,      \* the counter operation completed last, with what it returned
    count,     \* count[op]: how many operations of each kind have completed
    pools,     \* pools[p]: the fields of pool p, when several pools exist
    txn,       \* txn[k]: where the call of db.Transaction by caller k stands
    coll,      \* the maps of the defaultCollector
    mcall      \* the calls made on the collector: how many, and what the last returned

\* the fields of the one pool and its calls
pvars == <<size, workers, wg, closed, mu, spc, result, task, runs, cpc>>
\* the counter and its callers
cvars == <<value, start, calls, last, count>>
\* the infrastructure packages
ivars == <<txn, coll, mcall>>
\* everything outside the one pool and the outcomes of its tasks
outside == <<ctor, cvars, pools, ivars>>

vars == <<pvars, err, outside>>

Outcomes == {"nil", "error"}

Free == <<"free", 0>>
BySubmit(s) == <<"submit", s>>
ByClose(c) == <<"close", c>>

\* The kinds of counter operation that are tallied in count.
Kinds == {"Increment", "Decrement", "Reset", "CasWin", "CasOther"}

\* last before any counter operation has completed.  a and b are the
\* arguments of the call, ret the int64 it returned, ok the bool it returned.
NoCall == [op |-> "none", a |-> 0, b |-> 0, ret |-> 0, ok |-> FALSE]

\* The Pool literal of NewPool for one of several pools, with the one call
\* of Submit and the one call of Close made on it still to come.
FreshPool(sz) ==
    [size |-> sz, workers |-> 0, wg |-> 0, closed |-> FALSE, mu |-> "free",
     spc |-> "idle", result |-> "none", task |-> "none", cpc |-> "idle"]

\* No counter was created: nobody calls it and nothing is tallied.
CounterUnused ==
    /\ value = 0
    /\ start = 0
    /\ calls = <<>>
    /\ last = NoCall
    /\ count = <<>>

\* No further pool was created.
PoolsUnused == pools = <<>>

\* No database is in use.
TxnUnused == txn = <<>>

\* No metrics collector is in use.
MetricsUnused == coll = <<>> /\ mcall = <<>>

InfraUnused == TxnUnused /\ MetricsUnused

\* The Pool literal of NewPool, whatever the capacity of the channel: a
\* zero WaitGroup, closed = false, an unlocked mutex, an empty channel; no
\* call made yet.
Fresh ==
    /\ workers = 0
    /\ wg = 0
    /\ closed = FALSE
    /\ mu = Free
    /\ spc = [s \in Submitters |-> "idle"]
    /\ result = [s \in Submitters |-> "none"]
    /\ task = [s \in Submitters |-> "none"]
    /\ runs = [s \in Submitters |-> 0]
    /\ cpc = [c \in Closers |-> "idle"]
    /\ err = [s \in Submitters |-> "none"]

\* NewPool(size) has returned the pool, size >= 1.
Init ==
    /\ size \in 1..MaxLimit
    /\ Fresh
    /\ ctor = "built"
    /\ CounterUnused
    /\ PoolsUnused
    /\ InfraUnused

--------------------------------------------------------------------------
\* Submit

\* p.mu.Lock().  The calls of Submit are numbered in the order in which they
\* take the lock: call s takes it after every call r < s has.
SubmitLock(s) ==
    /\ spc[s] = "idle"
    /\ \A r \in Submitters : r < s => spc[r] # "idle"
    /\ mu = Free
    /\ mu' = BySubmit(s)
    /\ spc' = [spc EXCEPT ![s] = "check"]
    /\ UNCHANGED <<size, workers, wg, closed, result, task, runs, cpc>>
    /\ UNCHANGED <<err, outside>>

\* Faulty variant: the rejected call has already counted itself (Add before the check).
SubmitCheckCountsFirst(s) ==
    /\ spc[s] = "check"
    /\ mu' = Free
    /\ IF closed
          THEN /\ spc' = [spc EXCEPT ![s] = "done"]
               /\ result' = [result EXCEPT ![s] = "closed"]
               /\ wg' = wg + 1
          ELSE /\ spc' = [spc EXCEPT ![s] = "add"]
               /\ UNCHANGED <<result, wg>>
    /\ UNCHANGED <<size, workers, closed, task, runs, cpc>>
    /\ UNCHANGED <<err, outside>>

\* Faulty variant: the closed flag is not consulted.
SubmitCheckIgnoresClosed(s) ==
    /\ spc[s] = "check"
    /\ mu' = Free
    /\ spc' = [spc EXCEPT ![s] = "add"]
    /\ UNCHANGED <<size, workers, wg, closed, result, task, runs, cpc>>
    /\ UNCHANGED <<err, outside>>

\* if p.closed { p.mu.Unlock(); return errors.New("pool is closed") }
\* p.mu.Unlock()
SubmitCheck(s) ==
    /\ spc[s] = "check"
    /\ mu' = Free
    /\ IF closed
          THEN /\ spc' = [spc EXCEPT ![s] = "done"]
               /\ result' = [result EXCEPT ![s] = "closed"]
          ELSE /\ spc' = [spc EXCEPT ![s] = "add"]
               /\ UNCHANGED result
    /\ UNCHANGED <<size, workers, wg, closed, task, runs, cpc>>
    /\ UNCHANGED <<err, outside>>

\* Faulty variant: the permit is acquired by the caller of Submit, not by the goroutine.
SubmitAddAcquiresFirst(s) ==
    /\ spc[s] = "add"
    /\ workers < size
    /\ wg' = wg + 1
    /\ task' = [task EXCEPT ![s] = "pending"]
    /\ spc' = [spc EXCEPT ![s] = "done"]
    /\ result' = [result EXCEPT ![s] = "ok"]
    /\ UNCHANGED <<size, workers, closed, mu, runs, cpc>>
    /\ UNCHANGED <<err, outside>>

\* p.wg.Add(1); go func() { ... }(); return nil
\* (starting the goroutine and returning touch nothing another thread of
\* control reads, so they are taken with the Add.)
SubmitAdd(s) ==
    /\ spc[s] = "add"
    /\ wg' = wg + 1
    /\ task' = [task EXCEPT ![s] = "pending"]
    /\ spc' = [spc EXCEPT ![s] = "done"]
    /\ result' = [result EXCEPT ![s] = "ok"]
    /\ UNCHANGED <<size, workers, closed, mu, runs, cpc>>
    /\ UNCHANGED <<err, outside>>

--------------------------------------------------------------------------
\* The goroutine of an accepted task

\* Faulty variant: a pool of size 0 lets one task in at a time.
TaskAcquireZeroMeansOne(t) ==
    /\ task[t] = "pending"
    /\ workers < (IF size = 0 THEN 1 ELSE size)
    /\ workers' = workers + 1
    /\ task' = [task EXCEPT ![t] = "running"]
    /\ runs' = [runs EXCEPT ![t] = @ + 1]
    /\ UNCHANGED <<size, wg, closed, mu, spc, result, cpc>>
    /\ UNCHANGED <<err, outside>>

\* Faulty variant: once the pool is closed no waiting task is given a permit.
TaskAcquireBeforeClose(t) ==
    /\ task[t] = "pending"
    /\ ~closed
    /\ workers < size
    /\ workers' = workers + 1
    /\ task' = [task EXCEPT ![t] = "running"]
    /\ runs' = [runs EXCEPT ![t] = @ + 1]
    /\ UNCHANGED <<size, wg, closed, mu, spc, result, cpc>>
    /\ UNCHANGED <<err, outside>>

\* Faulty variant: the channel hands out one permit only, whatever its capacity.
TaskAcquireOneAtATime(t) ==
    /\ task[t] = "pending"
    /\ workers < 1
    /\ workers' = workers + 1
    /\ task' = [task EXCEPT ![t] = "running"]
    /\ runs' = [runs EXCEPT ![t] = @ + 1]
    /\ UNCHANGED <<size, wg, closed, mu, spc, result, cpc>>
    /\ UNCHANGED <<err, outside>>

\* Faulty variant: the send never blocks (an unbounded channel).
TaskAcquireUnbounded(t) ==
    /\ task[t] = "pending"
    /\ workers' = workers + 1
    /\ task' = [task EXCEPT ![t] = "running"]
    /\ runs' = [runs EXCEPT ![t] = @ + 1]
    /\ UNCHANGED <<size, wg, closed, mu, spc, result, cpc>>
    /\ UNCHANGED <<err, outside>>

\* p.workers <- struct{}{} blocks while the channel is full; then the release
\* is deferred and the body is called.
TaskAcquire(t) ==
    /\ task[t] = "pending"
    /\ workers < size
    /\ workers' = workers + 1
    /\ task' = [task EXCEPT ![t] = "running"]
    /\ runs' = [runs EXCEPT ![t] = @ + 1]
    /\ UNCHANGED <<size, wg, closed, mu, spc, result, cpc>>
    /\ UNCHANGED <<err, outside>>

\* task() returns, with nil or with an error: the pool is left the same.
TaskReturns(t) ==
    /\ task[t] = "running"
    /\ task' = [task EXCEPT ![t] = "ran"]
    /\ UNCHANGED <<size, workers, wg, closed, mu, spc, result, runs, cpc>>
    /\ UNCHANGED outside

\* _ = task(): whatever the body returns is dropped.
TaskBody(t) ==
    /\ TaskReturns(t)
    /\ UNCHANGED err

\* _ = task() with a body that stores what it returns, nil or an error, in a
\* variable it has captured (the only way a caller can learn the outcome).
TaskBodyObserved(t) ==
    /\ TaskReturns(t)
    /\ \E e \in Outcomes : err' = [err EXCEPT ![t] = e]

\* Faulty variant: a task whose body returned an error keeps its permit.
TaskReleaseOnSuccessOnly(t) ==
    /\ task[t] = "ran"
    /\ err[t] # "error"
    /\ workers' = workers - 1
    /\ task' = [task EXCEPT ![t] = "released"]
    /\ UNCHANGED <<size, wg, closed, mu, spc, result, runs, cpc>>
    /\ UNCHANGED <<err, outside>>

\* Faulty variant: the permit is never given back.
TaskReleaseLeaks(t) ==
    /\ task[t] = "ran"
    /\ task' = [task EXCEPT ![t] = "released"]
    /\ UNCHANGED <<size, workers, wg, closed, mu, spc, result, runs, cpc>>
    /\ UNCHANGED <<err, outside>>

\* defer func() { <-p.workers }()
TaskRelease(t) ==
    /\ task[t] = "ran"
    /\ workers' = workers - 1
    /\ task' = [task EXCEPT ![t] = "released"]
    /\ UNCHANGED <<size, wg, closed, mu, spc, result, runs, cpc>>
    /\ UNCHANGED <<err, outside>>

\* Faulty variant: the deferred Done is missing.
TaskDoneMissing(t) ==
    /\ task[t] = "released"
    /\ task' = [task EXCEPT ![t] = "finished"]
    /\ UNCHANGED <<size, workers, wg, closed, mu, spc, result, runs, cpc>>
    /\ UNCHANGED <<err, outside>>

\* Faulty variant: the deferred calls run in the other order, Done before the
\* permit is given back.
TaskDoneBeforeRelease(t) ==
    /\ task[t] = "ran"
    /\ wg' = wg - 1
    /\ task' = [task EXCEPT ![t] = "finished"]
    /\ cpc' = [c \in Closers |->
                 IF wg' = 0 /\ cpc[c] = "blocked" THEN "woken" ELSE cpc[c]]
    /\ UNCHANGED <<size, workers, closed, mu, spc, result, runs>>
    /\ UNCHANGED <<err, outside>>

\* defer p.wg.Done(): the counter drops by one, and when it reaches zero every
\* blocked Wait is released.
TaskDone(t) ==
    /\ task[t] = "released"
    /\ wg' = wg - 1
    /\ task' = [task EXCEPT ![t] = "finished"]
    /\ cpc' = [c \in Closers |->
                 IF wg' = 0 /\ cpc[c] = "blocked" THEN "woken" ELSE cpc[c]]
    /\ UNCHANGED <<size, workers, closed, mu, spc, result, runs>>
    /\ UNCHANGED <<err, outside>>

--------------------------------------------------------------------------
\* Close

\* p.mu.Lock().  The calls of Close are numbered in the order in which they
\* take the lock, so call 1 is the first to set closed and every call c > 1
\* finds it set.
CloseLock(c) ==
    /\ cpc[c] = "idle"
    /\ \A d \in Closers : d < c => cpc[d] # "idle"
    /\ mu = Free
    /\ mu' = ByClose(c)
    /\ cpc' = [cpc EXCEPT ![c] = "set"]
    /\ UNCHANGED <<size, workers, wg, closed, spc, result, task, runs>>
    /\ UNCHANGED <<err, outside>>

\* Faulty variant: Close drops the tasks that have not yet got a permit.
CloseSetCancelsPending(c) ==
    /\ cpc[c] = "set"
    /\ closed' = TRUE
    /\ mu' = Free
    /\ cpc' = [cpc EXCEPT ![c] = "wait"]
    /\ task' = [t \in Submitters |->
                   IF task[t] = "pending" THEN "finished" ELSE task[t]]
    /\ wg' = wg - Cardinality({t \in Submitters : task[t] = "pending"})
    /\ UNCHANGED <<size, workers, spc, result, runs>>
    /\ UNCHANGED <<err, outside>>

\* p.closed = true; p.mu.Unlock()
CloseSet(c) ==
    /\ cpc[c] = "set"
    /\ closed' = TRUE
    /\ mu' = Free
    /\ cpc' = [cpc EXCEPT ![c] = "wait"]
    /\ UNCHANGED <<size, workers, wg, spc, result, task, runs>>
    /\ UNCHANGED <<err, outside>>

\* Faulty variant: Close does not wait for the counter.
CloseWaitSkipped(c) ==
    /\ cpc[c] = "wait"
    /\ cpc' = [cpc EXCEPT ![c] = "ret"]
    /\ UNCHANGED <<size, workers, wg, closed, mu, spc, result, task, runs>>
    /\ UNCHANGED <<err, outside>>

\* p.wg.Wait(): returns at once when the counter is zero, else blocks.
CloseWait(c) ==
    /\ cpc[c] = "wait"
    /\ cpc' = [cpc EXCEPT ![c] = IF wg = 0 THEN "ret" ELSE "blocked"]
    /\ UNCHANGED <<size, workers, wg, closed, mu, spc, result, task, runs>>
    /\ UNCHANGED <<err, outside>>

\* p.wg.Wait() resumes after its release: sync.WaitGroup panics ("WaitGroup
\* is reused before previous Wait has returned") when an Add has made the
\* counter non-zero again by then.
CloseWake(c) ==
    /\ cpc[c] = "woken"
    /\ cpc' = [cpc EXCEPT ![c] = IF wg = 0 THEN "ret" ELSE "panic"]
    /\ UNCHANGED <<size, workers, wg, closed, mu, spc, result, task, runs>>
    /\ UNCHANGED <<err, outside>>

\* Close returns to its caller.
CloseReturn(c) ==
    /\ cpc[c] = "ret"
    /\ cpc' = [cpc EXCEPT ![c] = "done"]
    /\ UNCHANGED <<size, workers, wg, closed, mu, spc, result, task, runs>>
    /\ UNCHANGED <<err, outside>>

--------------------------------------------------------------------------
\* Faulty variant: the outstanding tasks are reported, pending ones included.
ActiveTasksCountsOutstanding == wg

\* ActiveTasks(): len(p.workers)
ActiveTasks == workers

Next ==
    \/ \E s \in Submitters : SubmitLock(s)
    \/ \E s \in Submitters : SubmitCheck(s)
    \/ \E s \in Submitters : SubmitAdd(s)
    \/ \E t \in Submitters : TaskAcquire(t)
    \/ \E t \in Submitters : TaskBody(t)
    \/ \E t \in Submitters : TaskRelease(t)
    \/ \E t \in Submitters : TaskDone(t)
    \/ \E c \in Closers : CloseLock(c)
    \/ \E c \in Closers : CloseSet(c)
    \/ \E c \in Closers : CloseWait(c)
    \/ \E c \in Closers : CloseWake(c)
    \/ \E c \in Closers : CloseReturn(c)

Spec == Init /\ [][Next]_vars

\* Fairness: the Go scheduler runs a runnable goroutine, task bodies
\* terminate, and a call that has started goes on: some started call or
\* goroutine that can take a step eventually takes one.  When a caller calls
\* Submit or Close is up to the caller.
Progress ==
    \/ \E s \in Submitters : SubmitCheck(s) \/ SubmitAdd(s)
    \/ \E t \in Submitters : TaskAcquire(t) \/ TaskBody(t) \/ TaskRelease(t) \/ TaskDone(t)
    \/ \E c \in Closers : CloseSet(c) \/ CloseWait(c) \/ CloseWake(c) \/ CloseReturn(c)

Fairness == WF_vars(Progress)

FairSpec == Spec /\ Fairness

--------------------------------------------------------------------------
\* main: every Submit has returned before the deferred Close is called, so
\* no Submit call overlaps a Close call.
SubmitBusy == \E s \in Submitters : spc[s] \in {"check", "add"}
CloseBusy == \E c \in Closers : cpc[c] \in {"set", "wait", "blocked", "woken", "ret"}

SeqSubmitLock(s) == ~CloseBusy /\ SubmitLock(s)
SeqCloseLock(c) == ~SubmitBusy /\ CloseLock(c)

SeqNext ==
    \/ \E s \in Submitters : SeqSubmitLock(s)
    \/ \E s \in Submitters : SubmitCheck(s)
    \/ \E s \in Submitters : SubmitAdd(s)
    \/ \E t \in Submitters : TaskAcquire(t)
    \/ \E t \in Submitters : TaskBody(t)
    \/ \E t \in Submitters : TaskRelease(t)
    \/ \E t \in Submitters : TaskDone(t)
    \/ \E c \in Closers : SeqCloseLock(c)
    \/ \E c \in Closers : CloseSet(c)
    \/ \E c \in Closers : CloseWait(c)
    \/ \E c \in Closers : CloseWake(c)
    \/ \E c \in Closers : CloseReturn(c)

SeqSpec == Init /\ [][SeqNext]_vars

\* The pool with tasks whose bodies record what they returned, and no call of
\* Close.
OutcomeNext ==
    \E s \in Submitters :
       \/ SubmitLock(s)
       \/ SubmitCheck(s)
       \/ SubmitAdd(s)
       \/ TaskAcquire(s)
       \/ TaskBodyObserved(s)
       \/ TaskRelease(s)
       \/ TaskDone(s)

OutcomeSpec == Init /\ [][OutcomeNext]_vars

\* NewPool(size) for any size: make(chan struct{}, size) panics when size is
\* negative and returns a channel otherwise, an unbuffered one when size is
\* 0; NewPool checks nothing itself.
NewPool ==
    /\ ctor = "calling"
    /\ ctor' = IF size < 0 THEN "panic" ELSE "built"
    /\ UNCHANGED <<pvars, err, cvars, pools, ivars>>

\* The call of NewPool is still to be made; its argument is a negative
\* number, 0, or a limit of at least 1.
CtorInit ==
    /\ size \in {0 - 1, 0} \cup (1..MaxLimit)
    /\ Fresh
    /\ ctor = "calling"
    /\ CounterUnused
    /\ PoolsUnused
    /\ InfraUnused

\* The pool is used once NewPool has returned it.
CtorNext ==
    \/ NewPool
    \/ ctor = "built" /\ Next

CtorSpec == CtorInit /\ [][CtorNext]_vars

--------------------------------------------------------------------------
\* Counter

\* No pool in use beside the counter.
PoolUnused ==
    /\ size = 1
    /\ Fresh
    /\ ctor = "built"

\* NewCounter(initial): &Counter{value: initial}, for any int64; no call made
\* yet.
CounterInit ==
    /\ value \in Ints
    /\ start = value
    /\ calls = [k \in Callers |-> 0]
    /\ last = NoCall
    /\ count = [o \in Kinds |-> 0]
    /\ PoolUnused
    /\ PoolsUnused
    /\ InfraUnused

\* What a call left in last: the method, its arguments, what it returned.
Returned(o, x, y, r, f) == [op |-> o, a |-> x, b |-> y, ret |-> r, ok |-> f]

\* A call by caller k has completed; nothing but the counter is touched.
Called(k) ==
    /\ calls[k] < MaxOps
    /\ calls' = [calls EXCEPT ![k] = @ + 1]
    /\ UNCHANGED <<start, pvars, err, ctor, pools, ivars>>

\* atomic.AddInt64(&c.value, delta): one step that adds delta, wrapping
\* around as int64 addition does, and returns the new value.
AddInt64(k, o, delta) ==
    /\ value' = Wrap(value + delta)
    /\ last' = Returned(o, delta, 0, value', FALSE)
    /\ Called(k)

\* Faulty variant: a plain read, add and write, which can overwrite the
\* update of a concurrent caller; the two updates together then count as one.
IncrementNotAtomic(k) ==
    /\ value' \in {value, Wrap(value + 1)}
    /\ last' = Returned("Increment", 1, 0, value', FALSE)
    /\ Called(k)

\* Faulty variant: the value before the addition is returned.
IncrementReturnsOld(k) ==
    /\ value' = Wrap(value + 1)
    /\ last' = Returned("Increment", 1, 0, value, FALSE)
    /\ Called(k)

\* Increment: return atomic.AddInt64(&c.value, 1)
Increment(k) == AddInt64(k, "Increment", 1)

\* Faulty variant: the counter is not taken below zero.
DecrementFloorsAtZero(k) ==
    /\ value' = IF value > 0 THEN value - 1 ELSE value
    /\ last' = Returned("Decrement", 0 - 1, 0, value', FALSE)
    /\ Called(k)

\* Faulty variant: a Decrement of a counter at zero waits until the counter
\* is positive.
DecrementBlocksAtZero(k) ==
    /\ value > 0
    /\ value' = value - 1
    /\ last' = Returned("Decrement", 0 - 1, 0, value', FALSE)
    /\ Called(k)

\* Decrement: return atomic.AddInt64(&c.value, -1)
Decrement(k) == AddInt64(k, "Decrement", 0 - 1)

\* Add: return atomic.AddInt64(&c.value, delta)
Add(k, delta) == AddInt64(k, "Add", delta)

\* Value: return atomic.LoadInt64(&c.value).  Reading is not counted
\* against the calls of the caller.
Value(k) ==
    /\ last' = Returned("Value", 0, 0, value, FALSE)
    /\ UNCHANGED <<value, calls, start, pvars, err, ctor, pools, ivars>>

\* Faulty variant: Reset puts the counter back to the value it was created with.
ResetToInitial(k) ==
    /\ value' = start
    /\ last' = Returned("Reset", 0, 0, 0, FALSE)
    /\ Called(k)

\* Reset: atomic.StoreInt64(&c.value, 0)
Reset(k) ==
    /\ value' = 0
    /\ last' = Returned("Reset", 0, 0, 0, FALSE)
    /\ Called(k)

\* Faulty variant: the new value is stored whether or not the comparison held.
CompareAndSwapAlwaysStores(k, old, new) ==
    /\ value' = new
    /\ last' = Returned("CompareAndSwap", old, new, 0, value = old)
    /\ Called(k)

\* CompareAndSwap: return atomic.CompareAndSwapInt64(&c.value, old, new)
CompareAndSwap(k, old, new) ==
    /\ value' = IF value = old THEN new ELSE value
    /\ last' = Returned("CompareAndSwap", old, new, 0, value = old)
    /\ Called(k)

\* One more completed operation of kind o.
Tally(o) == count' = [count EXCEPT ![o] = @ + 1]

\* The calls completed by all callers together.
RECURSIVE SumCalls(_)
SumCalls(S) ==
    IF S = {} THEN 0
    ELSE LET k == CHOOSE x \in S : TRUE IN calls[k] + SumCalls(S \ {k})

TotalCalls == SumCalls(Callers)

\* Callers that only increment, and read.
IncNext ==
    \E k \in Callers :
       \/ Increment(k) /\ Tally("Increment")
       \/ Value(k) /\ UNCHANGED count

IncSpec == CounterInit /\ [][IncNext]_vars

\* Callers that increment and decrement.
IncDecNext ==
    \E k \in Callers :
       \/ Increment(k) /\ Tally("Increment")
       \/ Decrement(k) /\ Tally("Decrement")

IncDecSpec == CounterInit /\ [][IncDecNext]_vars

\* The deltas given to Add: the two of Increment and Decrement, zero, and the
\* two ends of the integer range.
Deltas == {0 - Half, 0 - 1, 0, 1, Half - 1}

\* Callers that increment, decrement and add.
ArithNext ==
    \E k \in Callers :
       /\ \/ Increment(k)
          \/ Decrement(k)
          \/ \E d \in Deltas : Add(k, d)
       /\ UNCHANGED count

ArithSpec == CounterInit /\ [][ArithNext]_vars

\* The arguments given to CompareAndSwap: the value the counter was created
\* with and two other values.
CasArgs == {start, Wrap(start + 1), Wrap(start + 2)}

\* Callers of CompareAndSwap.  A call CompareAndSwap(start, x) with x # start
\* that returned true is tallied as a win; a call of any other form is
\* tallied as such.
CasNext ==
    \E k \in Callers : \E o, n \in CasArgs :
       /\ CompareAndSwap(k, o, n)
       /\ IF o = start /\ n # start
             THEN IF last'.ok THEN Tally("CasWin") ELSE UNCHANGED count
             ELSE Tally("CasOther")

CasSpec == CounterInit /\ [][CasNext]_vars

\* Callers that reset and increment.
ResetNext ==
    \E k \in Callers :
       \/ Reset(k) /\ Tally("Reset")
       \/ Increment(k) /\ Tally("Increment")

ResetSpec == CounterInit /\ [][ResetNext]_vars

--------------------------------------------------------------------------
\* Several pools.  Every call of NewPool returns its own Pool; the methods
\* read and write the fields of their receiver p only, and the package has
\* no variable of its own.  One call of Submit and one call of Close are made
\* on every pool; the statements are those of the one pool above.

\* NewPool(size) has returned each of the pools, each with a limit of its
\* own.  The pools are numbered in the order of their limits.
PoolsInit ==
    /\ pools \in {f \in [PoolIds -> {FreshPool(sz) : sz \in 1..MaxLimit}] :
                     \A p, q \in PoolIds : p < q => f[p].size <= f[q].size}
    /\ PoolUnused
    /\ CounterUnused
    /\ InfraUnused

\* A method with receiver p leaves the fields of p as r.
Writes(p, r) ==
    /\ pools' = [pools EXCEPT ![p] = r]
    /\ UNCHANGED <<pvars, err, ctor, cvars, ivars>>

\* Submit: p.mu.Lock()
PSubmitLock(p) ==
    /\ pools[p].spc = "idle"
    /\ pools[p].mu = "free"
    /\ Writes(p, [pools[p] EXCEPT !.mu = "submit", !.spc = "check"])

\* Submit: if p.closed { p.mu.Unlock(); return errors.New(...) }; p.mu.Unlock()
PSubmitCheck(p) ==
    /\ pools[p].spc = "check"
    /\ Writes(p, IF pools[p].closed
                    THEN [pools[p] EXCEPT !.mu = "free", !.spc = "done",
                                          !.result = "closed"]
                    ELSE [pools[p] EXCEPT !.mu = "free", !.spc = "add"])

\* Submit: p.wg.Add(1); go func() { ... }(); return nil
PSubmitAdd(p) ==
    /\ pools[p].spc = "add"
    /\ Writes(p, [pools[p] EXCEPT !.wg = @ + 1, !.task = "pending",
                                  !.spc = "done", !.result = "ok"])

\* goroutine: p.workers <- struct{}{}
PTaskAcquire(p) ==
    /\ pools[p].task = "pending"
    /\ pools[p].workers < pools[p].size
    /\ Writes(p, [pools[p] EXCEPT !.workers = @ + 1, !.task = "running"])

\* goroutine: _ = task()
PTaskBody(p) ==
    /\ pools[p].task = "running"
    /\ Writes(p, [pools[p] EXCEPT !.task = "ran"])

\* goroutine: defer func() { <-p.workers }()
PTaskRelease(p) ==
    /\ pools[p].task = "ran"
    /\ Writes(p, [pools[p] EXCEPT !.workers = @ - 1, !.task = "released"])

\* goroutine: defer p.wg.Done(); a Wait blocked on p.wg is woken at zero
PTaskDone(p) ==
    /\ pools[p].task = "released"
    /\ Writes(p, [pools[p] EXCEPT
                     !.wg = @ - 1,
                     !.task = "finished",
                     !.cpc = IF @ = "blocked" /\ pools[p].wg = 1
                                THEN "woken" ELSE @])

\* Close: p.mu.Lock()
PCloseLock(p) ==
    /\ pools[p].cpc = "idle"
    /\ pools[p].mu = "free"
    /\ Writes(p, [pools[p] EXCEPT !.mu = "close", !.cpc = "set"])

\* Faulty variant: the closed flag is one variable of the package, shared by
\* all pools.
PCloseSetShared(p) ==
    /\ pools[p].cpc = "set"
    /\ pools' = [q \in PoolIds |->
                   IF q = p
                      THEN [pools[q] EXCEPT !.closed = TRUE, !.mu = "free",
                                            !.cpc = "wait"]
                      ELSE [pools[q] EXCEPT !.closed = TRUE]]
    /\ UNCHANGED <<pvars, err, ctor, cvars, ivars>>

\* Close: p.closed = true; p.mu.Unlock()
PCloseSet(p) ==
    /\ pools[p].cpc = "set"
    /\ Writes(p, [pools[p] EXCEPT !.closed = TRUE, !.mu = "free",
                                  !.cpc = "wait"])

\* Close: p.wg.Wait() returns at once when the counter is zero, else blocks
PCloseWait(p) ==
    /\ pools[p].cpc = "wait"
    /\ Writes(p, [pools[p] EXCEPT
                     !.cpc = IF pools[p].wg = 0 THEN "ret" ELSE "blocked"])

\* Close: the woken Wait returns, or panics when the counter was raised again
PCloseWake(p) ==
    /\ pools[p].cpc = "woken"
    /\ Writes(p, [pools[p] EXCEPT
                     !.cpc = IF pools[p].wg = 0 THEN "ret" ELSE "panic"])

\* Close returns
PCloseReturn(p) ==
    /\ pools[p].cpc = "ret"
    /\ Writes(p, [pools[p] EXCEPT !.cpc = "done"])

PoolsNext ==
    \E p \in PoolIds :
       \/ PSubmitLock(p)
       \/ PSubmitCheck(p)
       \/ PSubmitAdd(p)
       \/ PTaskAcquire(p)
       \/ PTaskBody(p)
       \/ PTaskRelease(p)
       \/ PTaskDone(p)
       \/ PCloseLock(p)
       \/ PCloseSet(p)
       \/ PCloseWait(p)
       \/ PCloseWake(p)
       \/ PCloseReturn(p)

PoolsSpec == PoolsInit /\ [][PoolsNext]_vars

--------------------------------------------------------------------------
\* main: pool := NewPool(2); defer pool.Close(); five calls of Submit, one
\* after the other, with tasks that print, sleep and return nil; a sleep;
\* ActiveTasks(); return, which runs the deferred Close.

\* The two numbers of main.
MainLimit == 2
MainTasks == 5

MainCalls == 1..MainTasks

\* NewPool(2) has returned; none of the five calls of Submit is made yet.
MainInit ==
    /\ size = MainLimit
    /\ workers = 0
    /\ wg = 0
    /\ closed = FALSE
    /\ mu = Free
    /\ spc = [s \in MainCalls |-> "idle"]
    /\ result = [s \in MainCalls |-> "none"]
    /\ task = [s \in MainCalls |-> "none"]
    /\ runs = [s \in MainCalls |-> 0]
    /\ cpc = [c \in Closers |-> "idle"]
    /\ err = [s \in MainCalls |-> "none"]
    /\ ctor = "built"
    /\ CounterUnused
    /\ PoolsUnused
    /\ InfraUnused

\* The loop of main: the next call of Submit starts when the one before it
\* has returned.
MainSubmitLock(s) ==
    /\ \A r \in MainCalls : r < s => spc[r] = "done"
    /\ SubmitLock(s)

\* The deferred Close of main: it runs when main returns, after the loop.
MainCloseLock ==
    /\ \A s \in MainCalls : spc[s] = "done"
    /\ CloseLock(1)

MainNext ==
    \/ \E s \in MainCalls : MainSubmitLock(s)
    \/ \E s \in MainCalls : SubmitCheck(s)
    \/ \E s \in MainCalls : SubmitAdd(s)
    \/ \E t \in MainCalls : TaskAcquire(t)
    \/ \E t \in MainCalls : TaskBody(t)
    \/ \E t \in MainCalls : TaskRelease(t)
    \/ \E t \in MainCalls : TaskDone(t)
    \/ MainCloseLock
    \/ CloseSet(1)
    \/ CloseWait(1)
    \/ CloseWake(1)
    \/ CloseReturn(1)

\* main runs its statements one after the other and every goroutine is
\* scheduled: a step that stays possible is taken.
MainSpec == MainInit /\ [][MainNext]_vars /\ WF_vars(MainNext)

\* The tasks of main that hold a permit, and those that have been accepted
\* and have not yet given their permit back.
MainHolding == {t \in MainCalls : task[t] \in {"running", "ran"}}
MainBeforeRelease == {t \in MainCalls : task[t] \in {"pending", "running", "ran"}}
MainOutstanding ==
    {t \in MainCalls : task[t] \in {"pending", "running", "ran", "released"}}

--------------------------------------------------------------------------
\* Database: db.Transaction

\* What fn does when it is invoked: it returns nil, returns an error, or
\* panics.
FnOutcomes == {"nil", "error", "panic"}

\* Caller k has made no call of Transaction yet.  n counts the calls made;
\* the other fields describe the call made last: whether BeginTx gave a
\* transaction, how often fn was invoked and how it ended, how often Commit
\* and Rollback were called on the transaction, and what Transaction
\* returned.
NoTx ==
    [pc |-> "idle", n |-> 0, began |-> FALSE, fn |-> 0, out |-> "none",
     commits |-> 0, rollbacks |-> 0, ret |-> "none"]

\* A database, with callers that have not yet called Transaction.
TxInit ==
    /\ txn = [k \in Callers |-> NoTx]
    /\ MetricsUnused
    /\ PoolUnused
    /\ CounterUnused
    /\ PoolsUnused

\* A step of Transaction leaves everything but the call of caller k as it is.
TxStep(k, r) ==
    /\ txn' = [txn EXCEPT ![k] = r]
    /\ UNCHANGED <<pvars, err, ctor, cvars, pools, coll, mcall>>

\* tx, err := d.DB.BeginTx(ctx, nil); if err != nil, Transaction returns the
\* error of operation "begin_transaction".
BeginTx(k) ==
    /\ txn[k].pc \in {"idle", "returned", "panicked"}
    /\ txn[k].n < MaxOps
    /\ \E ok \in BOOLEAN :
          TxStep(k, IF ok
                       THEN [NoTx EXCEPT !.pc = "fn", !.n = txn[k].n + 1,
                                         !.began = TRUE]
                       ELSE [NoTx EXCEPT !.pc = "returned", !.n = txn[k].n + 1,
                                         !.ret = "begin_transaction"])

\* if err := fn(txWrapper); err != nil { rollback } else commit.  A panic of
\* fn unwinds Transaction, which has no deferred call, to its caller.
InvokeFn(k) ==
    /\ txn[k].pc = "fn"
    /\ \E o \in FnOutcomes :
          TxStep(k, [txn[k] EXCEPT !.fn = @ + 1, !.out = o,
                                   !.pc = CASE o = "nil" -> "commit"
                                            [] o = "error" -> "rollback"
                                            [] OTHER -> "panicked"])

\* if rbErr := tx.Rollback(); rbErr != nil, Transaction returns the error of
\* operation "rollback"; else it returns the error of fn.
Rollback(k) ==
    /\ txn[k].pc = "rollback"
    /\ \E ok \in BOOLEAN :
          TxStep(k, [txn[k] EXCEPT !.rollbacks = @ + 1, !.pc = "returned",
                                   !.ret = IF ok THEN "fn" ELSE "rollback"])

\* if err := tx.Commit(); err != nil, Transaction returns the error of
\* operation "commit"; else it returns nil.
Commit(k) ==
    /\ txn[k].pc = "commit"
    /\ \E ok \in BOOLEAN :
          TxStep(k, [txn[k] EXCEPT !.commits = @ + 1, !.pc = "returned",
                                   !.ret = IF ok THEN "nil" ELSE "commit"])

TxNext ==
    \E k \in Callers :
       \/ BeginTx(k)
       \/ InvokeFn(k)
       \/ Rollback(k)
       \/ Commit(k)

TxSpec == TxInit /\ [][TxNext]_vars

--------------------------------------------------------------------------
\* Metrics: defaultCollector

\* MetricType: Counter = iota, Gauge, Histogram
Counter == 0
Gauge == 1
Histogram == 2
MetricTypes == {Counter, Gauge, Histogram}

\* The metric names callers use.
MetricNames == {"requests", "latency"}

\* The Labels callers pass: nil, and a map of two labels.
LabelSets == {{}, {<<"k", "v">>, <<"m", "w">>}}

\* A Go map: a function on the keys it holds.  Indexing a key that is not
\* held (or a nil map) yields the zero value of the element type.
EmptyMap == [x \in {} |-> 0]
At(m, k, zero) == IF k \in DOMAIN m THEN m[k] ELSE zero
Put(m, k, v) == [x \in DOMAIN m \cup {k} |-> IF x = k THEN v ELSE m[x]]

\* labelsToString: "" for no labels, else the concatenation of "k=v;" over
\* range labels, whose order Go leaves unspecified: the set of the strings
\* it can return.
RECURSIVE labelsToString(_)
labelsToString(labels) ==
    IF labels = {} THEN {""}
    ELSE UNION {{p[1] \o "=" \o p[2] \o ";" \o rest :
                    rest \in labelsToString(labels \ {p})} : p \in labels}

\* No call on the collector has been made.
NoGot == [op |-> "none", name |-> "", num |-> 0, list |-> <<>>, failed |-> FALSE]

\* New(cfg) with metrics enabled: five empty maps.
MetricsInit ==
    /\ coll = [types |-> EmptyMap, descriptions |-> EmptyMap,
               counters |-> EmptyMap, gauges |-> EmptyMap,
               histograms |-> EmptyMap]
    /\ mcall = [n |-> 0, got |-> NoGot]
    /\ TxnUnused
    /\ PoolUnused
    /\ CounterUnused
    /\ PoolsUnused

\* A call that may write the collector has returned: it counts against the
\* calls made, and nothing but the collector is touched.
Wrote(o, name, f) ==
    /\ mcall.n < MaxMetricOps
    /\ mcall' = [n |-> mcall.n + 1,
                 got |-> [NoGot EXCEPT !.op = o, !.name = name, !.failed = f]]
    /\ UNCHANGED <<pvars, err, ctor, cvars, pools, txn>>

\* A getter has returned the float64 num or the slice list.
Read(o, name, x, l) ==
    /\ mcall' = [mcall EXCEPT !.got = [NoGot EXCEPT !.op = o, !.name = name,
                                                   !.num = x, !.list = l]]
    /\ UNCHANGED <<coll, pvars, err, ctor, cvars, pools, txn>>

\* Register: an error when c.types holds the name; else the type and the
\* description are stored and the map of the metric is made.
Register(name, metricType) ==
    IF name \in DOMAIN coll.types
       THEN /\ UNCHANGED coll
            /\ Wrote("Register", name, TRUE)
       ELSE /\ coll' = [coll EXCEPT
                          !.types = Put(@, name, metricType),
                          !.descriptions = Put(@, name, "description"),
                          !.counters = IF metricType = Counter
                                          THEN Put(@, name, EmptyMap) ELSE @,
                          !.gauges = IF metricType = Gauge
                                        THEN Put(@, name, EmptyMap) ELSE @,
                          !.histograms = IF metricType = Histogram
                                            THEN Put(@, name, EmptyMap) ELSE @]
            /\ Wrote("Register", name, FALSE)

\* IncrementCounter: if c.types[name] != Counter { return }, where c.types[name]
\* is the zero MetricType for a name the map does not hold; else the map of
\* the name is made when missing and value is added at the key of the labels.
IncrementCounter(name, val, labels) ==
    /\ IF At(coll.types, name, 0) # Counter
          THEN UNCHANGED coll
          ELSE \E key \in labelsToString(labels) :
                  LET m == At(coll.counters, name, EmptyMap) IN
                  coll' = [coll EXCEPT
                             !.counters = Put(@, name, Put(m, key, At(m, key, 0) + val))]
    /\ Wrote("IncrementCounter", name, FALSE)

\* GetCounter: 0 if c.types[name] != Counter, else c.counters[name][key].
GetCounter(name, labels) ==
    IF At(coll.types, name, 0) # Counter
       THEN Read("GetCounter", name, 0, <<>>)
       ELSE \E key \in labelsToString(labels) :
               Read("GetCounter", name,
                    At(At(coll.counters, name, EmptyMap), key, 0), <<>>)

\* SetGauge: if c.types[name] != Gauge { return }; else value is stored at
\* the key of the labels.
SetGauge(name, val, labels) ==
    /\ IF At(coll.types, name, 0) # Gauge
          THEN UNCHANGED coll
          ELSE \E key \in labelsToString(labels) :
                  LET m == At(coll.gauges, name, EmptyMap) IN
                  coll' = [coll EXCEPT !.gauges = Put(@, name, Put(m, key, val))]
    /\ Wrote("SetGauge", name, FALSE)

\* GetGauge: 0 if c.types[name] != Gauge, else c.gauges[name][key].
GetGauge(name, labels) ==
    IF At(coll.types, name, 0) # Gauge
       THEN Read("GetGauge", name, 0, <<>>)
       ELSE \E key \in labelsToString(labels) :
               Read("GetGauge", name,
                    At(At(coll.gauges, name, EmptyMap), key, 0), <<>>)

\* ObserveHistogram: if c.types[name] != Histogram { return }; else value is
\* appended at the key of the labels.
ObserveHistogram(name, val, labels) ==
    /\ IF At(coll.types, name, 0) # Histogram
          THEN UNCHANGED coll
          ELSE \E key \in labelsToString(labels) :
                  LET m == At(coll.histograms, name, EmptyMap) IN
                  coll' = [coll EXCEPT
                             !.histograms =
                                Put(@, name, Put(m, key, Append(At(m, key, <<>>), val)))]
    /\ Wrote("ObserveHistogram", name, FALSE)

\* GetHistogram: nil if c.types[name] != Histogram, else
\* c.histograms[name][key].
GetHistogram(name, labels) ==
    IF At(coll.types, name, 0) # Histogram
       THEN Read("GetHistogram", name, 0, <<>>)
       ELSE \E key \in labelsToString(labels) :
               Read("GetHistogram", name, 0,
                    At(At(coll.histograms, name, EmptyMap), key, <<>>))

\* The values callers pass.
MetricValues == {1, 2}

MetricsNext ==
    \E name \in MetricNames :
       \/ \E metricType \in MetricTypes : Register(name, metricType)
       \/ \E labels \in LabelSets :
             \/ \E val \in MetricValues : IncrementCounter(name, val, labels)
             \/ \E val \in MetricValues : SetGauge(name, val, labels)
             \/ \E val \in MetricValues : ObserveHistogram(name, val, labels)
             \/ GetCounter(name, labels)
             \/ GetGauge(name, labels)
             \/ GetHistogram(name, labels)

MetricsSpec == MetricsInit /\ [][MetricsNext]_vars

\* The name was registered with type t.
RegisteredAs(name, t) == name \in DOMAIN coll.types /\ coll.types[name] = t

--------------------------------------------------------------------------
\* Vocabulary of the properties

\* tasks that hold a permit: between the send on p.workers and the receive
Holding == {t \in Submitters : task[t] \in {"running", "ran"}}
\* tasks waiting for a permit
Pending == {t \in Submitters : task[t] = "pending"}
\* the body of the task of call s has returned
Completed(s) == task[s] \in {"ran", "released", "finished"}
\* call s has read closed = false
PastCheck(s) == spc[s] = "add" \/ task[s] # "none"

--------------------------------------------------------------------------
\* C1: the number of tasks that hold a permit never exceeds the limit, for
\* every limit >= 1 and every interleaving.
C1_AtMostLimit == size >= 1 /\ Cardinality(Holding) <= size

\* C1 witness: every permit is held while another accepted task waits.
C1_Saturated == Cardinality(Holding) = size /\ Pending # {}

\* C2 (as claimed): Close never returns while a task whose Submit returned
\* success has not completed.
C2_CloseWaitsForAccepted ==
    [][\A c \in Closers :
          (cpc[c] = "ret" /\ cpc'[c] = "done")
             => \A s \in Submitters : result[s] = "ok" => Completed(s)]_vars

\* C3 (as claimed): no state has closed = true while a Submit that read
\* closed = false has not yet incremented the outstanding count.
C3_CheckAndCountAtomic == ~(closed /\ \E s \in Submitters : spc[s] = "add")

\* C4: when no Submit call overlaps a Close call, a Close that has stopped
\* waiting finds the body of every successfully submitted task finished.
C4_SequentialCloseDrains ==
    \A c \in Closers :
       cpc[c] \in {"ret", "done"}
          => \A s \in Submitters : result[s] = "ok" => Completed(s)

\* C4 witness: every Submit returned success, the first Close has returned
\* and every task has finished.
C4_DrainedAfterBlocking ==
    \E c \in Closers :
       /\ cpc[c] = "done"
       /\ \A s \in Submitters : result[s] = "ok" /\ task[s] = "finished"

\* C5: a Submit that reads closed = true returns the "pool is closed" error
\* and changes neither the outstanding count nor the permits nor any task,
\* and a rejected call's task never exists and never runs.
C5_RejectedWhenClosed ==
    /\ [][\A s \in Submitters :
             (spc[s] = "check" /\ closed /\ spc'[s] # "check")
                => /\ spc'[s] = "done"
                   /\ result'[s] = "closed"
                   /\ wg' = wg
                   /\ workers' = workers
                   /\ task' = task
                   /\ runs' = runs]_vars
    /\ [](\A s \in Submitters :
             result[s] = "closed" => task[s] = "none" /\ runs[s] = 0)

\* C5 witness: a Submit begun after Close returned was rejected.
C5_RejectedAfterClose ==
    \E s \in Submitters, c \in Closers :
       result[s] = "closed" /\ cpc[c] = "done" /\ task[s] = "none"

C7_ExactlyOnce ==
    /\ [](\A s \in Submitters : runs[s] <= 1)
    /\ <>[](\A s \in Submitters :
               result[s] = "ok" => runs[s] = 1 /\ Completed(s))

\* C7 witness: more tasks than permits were accepted and each has run its
\* body exactly once.
C7_AllRanOnce ==
    /\ size < NumSubmitters
    /\ \A s \in Submitters : result[s] = "ok" /\ runs[s] = 1 /\ task[s] = "finished"

\* C8: Submit on an open pool never waits for a permit and is rejected only
\* when the pool is closed: past the closed check its remaining step is
\* always enabled, whatever the permits, and the task it leaves is pending.
C8_SubmitNeverBlocksOnLoad ==
    \A s \in Submitters :
       /\ spc[s] = "add" => ENABLED SubmitAdd(s)
       /\ spc[s] = "check" => ENABLED SubmitCheck(s)
       /\ result[s] = "closed" => closed
       /\ result[s] = "ok" => task[s] # "none"

\* C8 witness: every permit is held, another task is already pending, and a
\* further Submit has returned success with its task held pending too.
C8_AcceptedWhileSaturated ==
    /\ workers = size
    /\ ~closed
    /\ \E s, t \in Submitters :
          /\ s # t
          /\ result[s] = "ok" /\ task[s] = "pending"
          /\ result[t] = "ok" /\ task[t] = "pending"

\* C9: the outstanding count equals the number of tasks whose Submit
\* returned success and whose goroutine has not finished; it is zero exactly
\* when all of them have finished, and it is never negative.
C9_OutstandingCountsUnfinished ==
    LET unfinished == {s \in Submitters : result[s] = "ok" /\ task[s] # "finished"}
    IN  /\ wg = Cardinality(unfinished)
        /\ wg >= 0
        /\ (wg = 0) <=> (\A s \in Submitters : result[s] = "ok" => task[s] = "finished")

\* C9 witness: the count is back at zero after accepted tasks have finished.
C9_DrainedToZero ==
    wg = 0 /\ \A s \in Submitters : result[s] = "ok" /\ task[s] = "finished"

\* C10 (as claimed): a second call of Close (a call c > 1, which finds
\* closed already set) does not panic, and when it has returned closed is
\* true and no work that passed the closed check is left unfinished.
C10_SecondCloseIdempotent ==
    \A c \in Closers :
       c > 1 =>
          /\ cpc[c] # "panic"
          /\ cpc[c] = "done" =>
                /\ closed
                /\ \A s \in Submitters : PastCheck(s) => task[s] = "finished"

--------------------------------------------------------------------------
\* C11: ActiveTasks() is exactly the number of tasks that have acquired a
\* permit and not yet released it; tasks still waiting for a permit are not
\* counted, and the result lies between 0 and the limit.
C11_ActiveTasksCountsHolders ==
    /\ ActiveTasks = Cardinality(Holding)
    /\ ActiveTasks >= 0
    /\ ActiveTasks <= size

\* C11 witness: a task holds a permit while another accepted task waits for
\* one, and ActiveTasks() reports the holders only.
C11_PendingNotCounted ==
    /\ Pending # {}
    /\ Holding # {}
    /\ ActiveTasks = Cardinality(Holding)
    /\ ActiveTasks < Cardinality(Holding \cup Pending)

--------------------------------------------------------------------------
\* C12: what the task body returns is invisible to the pool: whether it
\* returned an error or nil, Submit has returned nil, the permit is released
\* and the outstanding count is decremented in the same way.
C12_OutcomeInvisible ==
    /\ \A t \in Submitters :
          err[t] # "none" =>
             /\ result[t] = "ok"
             /\ task[t] = "ran" => ENABLED TaskRelease(t)
             /\ task[t] = "released" => ENABLED TaskDone(t)
    /\ workers = Cardinality(Holding)
    /\ wg = Cardinality({t \in Submitters :
                            task[t] \in {"pending", "running", "ran", "released"}})

\* C12 witness: a task that returned an error and a task that returned nil
\* have both finished, and no permit is held and nothing is outstanding.
C12_BothOutcomesFinished ==
    /\ \E t, u \in Submitters :
          /\ err[t] = "error" /\ task[t] = "finished"
          /\ err[u] = "nil" /\ task[u] = "finished"
    /\ workers = 0
    /\ wg = 0

--------------------------------------------------------------------------
\* C13: constructing a pool with a limit below 1, zero or negative, fails
\* at construction: NewPool never returns a pool for such a limit.
C13_FailsFastBelowOne == (size < 1 /\ ctor # "calling") => ctor = "panic"

--------------------------------------------------------------------------
\* C14: Close cancels and interrupts nothing.  No statement of Close changes
\* anything of the pool but the closed flag (and the mutex it takes and
\* gives back): the channel, the outstanding count, the tasks and the calls
\* of Submit are left as they are, and closed is only ever set.  No task is
\* released or finished without having run its body, and a task that is
\* running or pending while the pool is closed can still take its next step,
\* the body or, when a permit is free, the acquire.
C14_CloseCancelsNothing ==
    /\ [][(\E c \in Closers : \/ CloseLock(c) \/ CloseSet(c) \/ CloseWait(c)
                               \/ CloseWake(c) \/ CloseReturn(c))
            => /\ UNCHANGED <<size, workers, wg, spc, result, task, runs, err>>
               /\ closed => closed']_vars
    /\ [](\A t \in Submitters :
            /\ task[t] \in {"released", "finished"} => runs[t] = 1
            /\ (closed /\ task[t] = "running") => ENABLED TaskBody(t)
            /\ (closed /\ task[t] = "pending" /\ workers < size)
                  => ENABLED TaskAcquire(t))

\* C14 witness: a call of Close has set the flag and is blocked in Wait while
\* one accepted task is running and another is still waiting for a permit.
C14_CloseWaitsWhileTasksLive ==
    /\ closed
    /\ \E c \in Closers : cpc[c] = "blocked"
    /\ \E t, u \in Submitters : task[t] = "running" /\ task[u] = "pending"

--------------------------------------------------------------------------
\* C15: no update is lost: with callers that only call Increment, in any
\* interleaving, the counter holds the value it was created with plus the
\* number of calls of Increment made so far, and that is what Value() returns
\* (in int64 arithmetic).
C15_NoLostIncrement ==
    /\ count["Increment"] = TotalCalls
    /\ value = Wrap(start + count["Increment"])
    /\ last.op = "Value" => last.ret = Wrap(start + count["Increment"])

\* C15 witness: every caller has made all its calls of Increment on a
\* counter created with 0, and the final Value() returned their number.
C15_AllIncremented ==
    /\ start = 0
    /\ \A k \in Callers : calls[k] = MaxOps
    /\ last.op = "Value"
    /\ last.ret = NumCallers * MaxOps

\* C16: CompareAndSwap(old, new) returns true and stores new if and only if
\* the counter held old when the call took effect; otherwise it returns false
\* and leaves the counter as it was.  When all calls made are
\* CompareAndSwap(v, x) on a counter created with v, each with x # v,
\* exactly one of them returns true.
C16_CompareAndSwap ==
    /\ [][(calls' # calls /\ last'.op = "CompareAndSwap")
            => IF value = last'.a
                  THEN last'.ok /\ value' = last'.b
                  ELSE ~last'.ok /\ value' = value]_vars
    /\ []((count["CasOther"] = 0 /\ TotalCalls >= 1) => count["CasWin"] = 1)

\* C16 witness: every caller has called CompareAndSwap(v, x) with x # v, no
\* call of another form was made, and one call returned true.
C16_OneWinner ==
    /\ count["CasOther"] = 0
    /\ \A k \in Callers : calls[k] = MaxOps
    /\ count["CasWin"] = 1
    /\ value # start
    /\ ~last.ok

\* C17: whenever as many calls of Decrement as of Increment have been made,
\* in any order and interleaving, the counter is back at the value it was
\* created with, whatever that value is.
C17_RoundTrip == count["Increment"] = count["Decrement"] => value = start

\* C17 witness: two increments and two decrements have been made on a
\* counter created with the largest integer, the last of them an increment,
\* and the counter is back at that value.
C17_BackAtStart ==
    /\ count["Increment"] = 2
    /\ count["Decrement"] = 2
    /\ last.op = "Increment"
    /\ start = Half - 1
    /\ value = start

\* C18: Increment, Decrement and Add(delta) return the value the counter
\* holds right after their own update, which is the value before it plus 1,
\* minus 1, plus delta; so Add(1) and Add(-1) change and return what
\* Increment and Decrement do, and of two calls of Increment that take effect
\* one after the other the second returns one more than the first: k calls
\* of Increment from v return v+1, ..., v+k, each once.
C18_ReturnsNewValue ==
    [][calls' # calls
        => /\ last'.ret = value'
           /\ value' = Wrap(value + (CASE last'.op = "Increment" -> 1
                                        [] last'.op = "Decrement" -> 0 - 1
                                        [] OTHER -> last'.a))
           /\ (last.op = "Increment" /\ last'.op = "Increment")
                 => last'.ret = Wrap(last.ret + 1)]_vars

\* C18 witness: all calls have been made, the counter stands at the value it
\* was created with plus their number, and the last call, an Increment,
\* returned that value.
C18_LastOfRun ==
    /\ \A k \in Callers : calls[k] = MaxOps
    /\ last.op = "Increment"
    /\ last.ret = Wrap(start + NumCallers * MaxOps)
    /\ value = last.ret

\* C19: Reset leaves the counter at 0 whatever it held; after one Reset and
\* one Increment, in either order, from any starting value, the counter holds
\* 0 or 1.
C19_ResetRacesIncrement ==
    /\ last.op = "Reset" => value = 0
    /\ (count["Reset"] = 1 /\ count["Increment"] = 1) => value \in {0, 1}

\* C19 witness: on a counter created with a value other than 0 and 1, one
\* caller has reset and another has incremented, the increment last, and the
\* counter holds 1.
C19_IncrementAfterReset ==
    /\ start \notin {0, 1}
    /\ count["Reset"] = 1
    /\ count["Increment"] = 1
    /\ \E j, k \in Callers : j # k /\ calls[j] = 1 /\ calls[k] = 1
    /\ last.op = "Increment"
    /\ value = 1

--------------------------------------------------------------------------
\* C20: pools are independent.  A step taken on one pool (a statement of
\* Submit or of Close, the admission or the completion of a task) leaves the
\* closed flag, the permits held and the outstanding count of every other
\* pool as they were; and Submit on a pool is rejected only when Close was
\* called on that very pool, never because another pool was closed.
C20_PoolsIndependent ==
    /\ [][\A p, q \in PoolIds :
            (p # q /\ pools'[p] # pools[p])
               => /\ pools'[q].closed = pools[q].closed
                  /\ pools'[q].workers = pools[q].workers
                  /\ pools'[q].wg = pools[q].wg]_vars
    /\ [](\A p \in PoolIds :
            /\ pools[p].closed => pools[p].cpc \notin {"idle", "set"}
            /\ pools[p].result = "closed" => pools[p].cpc \notin {"idle", "set"})

\* C20 witness: Close has returned on one pool while on another pool, on
\* which Close was not called, Submit is at its check of the closed flag and
\* finds it unset.
C20_SubmitOnOpenPoolAfterOtherClosed ==
    \E p, q \in PoolIds :
       /\ p # q
       /\ pools[p].closed
       /\ pools[p].cpc = "done"
       /\ pools[q].cpc = "idle"
       /\ pools[q].spc = "check"
       /\ ~pools[q].closed

--------------------------------------------------------------------------
\* C21: every accepted task goes through acquire permit, run body, release
\* permit, decrement outstanding, in that order and one at a time: a task
\* changes state only along pending -> running -> ran -> released -> finished,
\* the acquire adds a permit, the release gives it back with the outstanding
\* count untouched, and the decrement comes after it.  Hence, when no Submit
\* overlaps a Close, ActiveTasks() is 0 whenever a Close has stopped waiting.
C21_ReleaseBeforeDone ==
    /\ [][\A t \in Submitters :
            task'[t] # task[t]
               => \/ /\ task[t] = "none" /\ task'[t] = "pending"
                     /\ wg' = wg + 1 /\ workers' = workers
                  \/ /\ task[t] = "pending" /\ task'[t] = "running"
                     /\ workers' = workers + 1 /\ wg' = wg
                  \/ /\ task[t] = "running" /\ task'[t] = "ran"
                     /\ workers' = workers /\ wg' = wg
                  \/ /\ task[t] = "ran" /\ task'[t] = "released"
                     /\ workers' = workers - 1 /\ wg' = wg
                  \/ /\ task[t] = "released" /\ task'[t] = "finished"
                     /\ workers' = workers /\ wg' = wg - 1]_vars
    /\ [](\A c \in Closers : cpc[c] \in {"ret", "done"} => ActiveTasks = 0)

\* C21 witness: a Close has returned after more tasks than the limit were
\* accepted and finished; ActiveTasks() is 0 and nothing is outstanding.
C21_ZeroAfterDrain ==
    /\ \E c \in Closers : cpc[c] = "done"
    /\ Cardinality({t \in Submitters : task[t] = "finished"}) > size
    /\ ActiveTasks = 0
    /\ wg = 0

--------------------------------------------------------------------------
\* C22 as stated: with limit 2 and all 5 tasks submitted, whenever at least
\* 2 tasks are unfinished (their Done not yet made) and no pending task can
\* take a free permit, exactly 2 tasks hold a permit.
C22_TwoWheneverTwoUnfinished ==
    (/\ \A t \in MainCalls : task[t] # "none"
     /\ Cardinality(MainOutstanding) >= 2
     /\ ~ \E t \in MainCalls : ENABLED TaskAcquire(t))
       => Cardinality(MainHolding) = MainLimit

\* C22 amended: with limit 2 and 5 tasks, at most 2 tasks hold a permit at
\* any instant; exactly 2 do whenever at least 2 accepted tasks have not yet
\* given their permit back and no pending task can take a free permit; all 5
\* tasks end up finished, each having run once, and ActiveTasks() is then 0.
C22_TwoAtATime ==
    /\ [](Cardinality(MainHolding) <= MainLimit /\ ActiveTasks <= MainLimit)
    /\ []((/\ Cardinality(MainBeforeRelease) >= 2
           /\ ~ \E t \in MainCalls : ENABLED TaskAcquire(t))
             => Cardinality(MainHolding) = MainLimit)
    /\ <>[](/\ \A t \in MainCalls : task[t] = "finished" /\ runs[t] = 1
            /\ ActiveTasks = 0)

\* C22 witness: two of the five tasks hold the two permits while the three
\* others, all accepted, wait for one.
C22_TwoRunThreeWait ==
    /\ size = MainLimit
    /\ Cardinality(MainHolding) = 2
    /\ Cardinality({t \in MainCalls : task[t] = "pending"}) = 3
    /\ ActiveTasks = 2

\* C23: Decrement has no floor at zero: a Decrement of a counter at 0 returns
\* -1 and leaves the counter at -1, and below zero it goes on counting down;
\* and no counter operation waits or fails: a caller can complete any of
\* Increment, Decrement, Add, Value, Reset and CompareAndSwap, with any
\* argument, in every state of the counter.
C23_NoFloor ==
    /\ [][(calls' # calls /\ last'.op = "Decrement" /\ value <= 0 /\ value > 0 - Half)
            => (value' = value - 1 /\ last'.ret = value - 1)]_vars
    /\ [](\A k \in Callers :
            calls[k] < MaxOps =>
               /\ ENABLED Increment(k)
               /\ ENABLED Decrement(k)
               /\ ENABLED Reset(k)
               /\ ENABLED Value(k)
               /\ \A d \in Deltas : ENABLED Add(k, d)
               /\ \A x \in CasArgs : \A y \in CasArgs : ENABLED CompareAndSwap(k, x, y))

\* C23 witness: a counter created with 0 has just been decremented once: the
\* call returned -1 and the counter holds -1.
C23_MinusOne ==
    /\ start = 0
    /\ TotalCalls = 1
    /\ last.op = "Decrement"
    /\ last.ret = 0 - 1
    /\ value = 0 - 1

\* C24 (as claimed): with a limit of at least 1, terminating task bodies and
\* fair scheduling, every call of Close that has been made eventually
\* returns, however many tasks were accepted.
C24_CloseReturns ==
    \A c \in Closers : (cpc[c] = "set") ~> (cpc[c] = "done")

\* C25: admission is work-conserving: whenever an accepted task is pending
\* and fewer permits than the limit are held, every pending task is able to
\* take a permit; under fair scheduling no task stays pending for ever while
\* a permit is free; and a permit is given back only by a task whose body
\* has ended, and every task whose body has ended gives its permit back.
C25_WorkConserving ==
    /\ [](\A t \in MainCalls :
             (task[t] = "pending" /\ workers < size) => ENABLED TaskAcquire(t))
    /\ \A t \in MainCalls : []<>(task[t] # "pending" \/ workers = size)
    /\ [][workers' < workers
            => \E t \in MainCalls : task[t] = "ran" /\ task'[t] = "released"]_vars
    /\ \A t \in MainCalls : (task[t] = "ran") ~> (task[t] \in {"released", "finished"})

\* C25 witness: after Close was called a task is still pending, a task has
\* just given its permit back, and one permit is free for the pending task.
C25_PermitFreeForPending ==
    /\ closed
    /\ workers < size
    /\ \E s, t \in MainCalls :
          /\ task[s] = "released"
          /\ task[t] = "pending"

\* C26: a pool built with limit 0 never admits.  A Submit that found the pool
\* open still returns success, counts its task as outstanding and leaves it
\* pending; no task ever takes a permit or runs its body, ActiveTasks() stays
\* 0 and the outstanding count never goes down; and a Close that is called
\* when a task has been accepted never gets past its wait.
C26_ZeroNeverAdmits ==
    /\ []((size = 0 /\ ctor = "built")
            => /\ ActiveTasks = 0
               /\ \A t \in Submitters :
                     /\ task[t] \in {"none", "pending"}
                     /\ runs[t] = 0
                     /\ ~ENABLED TaskAcquire(t)
                     /\ result[t] = "ok" => task[t] = "pending"
               /\ wg = Cardinality(Pending))
    /\ [][(size = 0 /\ ctor = "built")
            => /\ wg' >= wg
               /\ \A s \in Submitters :
                     (spc[s] = "add" /\ spc'[s] # "add")
                        => (result'[s] = "ok" /\ wg' = wg + 1)
               /\ \A c \in Closers :
                     (wg >= 1 /\ cpc[c] \in {"idle", "set", "wait", "blocked"})
                        => cpc'[c] \in {"idle", "set", "wait", "blocked"}]_vars

\* C26 witness: on a pool built with limit 0 every Submit has returned
\* success, every task is pending with no permit held, and a Close called
\* after them is blocked in its wait.
C26_StuckAtZero ==
    /\ size = 0
    /\ ctor = "built"
    /\ ActiveTasks = 0
    /\ \A s \in Submitters : result[s] = "ok" /\ task[s] = "pending"
    /\ wg = NumSubmitters
    /\ \E c \in Closers : cpc[c] = "blocked"

\* C27 (as claimed): once a call of Transaction is over, the transaction it
\* began has been ended by exactly one call of Commit or Rollback: one
\* Rollback and no Commit when fn returned an error, and the call returned
\* that error or the rollback error; one Commit and no Rollback when fn
\* returned nil, and the call returned nil or the commit error; and when
\* BeginTx failed, fn was not invoked and the begin error was returned.
C27_ExactlyOneEnd ==
    \A k \in Callers :
       LET x == txn[k] IN
       /\ (x.pc \in {"returned", "panicked"} /\ x.began)
             => (x.commits + x.rollbacks = 1 /\ x.fn = 1)
       /\ (x.pc = "returned" /\ x.out = "error")
             => (x.rollbacks = 1 /\ x.commits = 0 /\ x.ret \in {"fn", "rollback"})
       /\ (x.pc = "returned" /\ x.out = "nil")
             => (x.commits = 1 /\ x.rollbacks = 0 /\ x.ret \in {"nil", "commit"})
       /\ (x.pc = "returned" /\ ~x.began)
             => (x.fn = 0 /\ x.ret = "begin_transaction")

\* C28 (as claimed): IncrementCounter, SetGauge and ObserveHistogram change
\* the collector only for a name registered with the matching type; for a
\* name never registered, or registered with another type, they leave the
\* collector as it is and the matching getter returns the zero value.
C28_TypeGuard ==
    [][\A name \in MetricNames : \A labels \in LabelSets :
          /\ ~RegisteredAs(name, Counter)
                => /\ (\E v \in MetricValues : IncrementCounter(name, v, labels))
                         => UNCHANGED coll
                   /\ GetCounter(name, labels) => mcall'.got.num = 0
          /\ ~RegisteredAs(name, Gauge)
                => /\ (\E v \in MetricValues : SetGauge(name, v, labels))
                         => UNCHANGED coll
                   /\ GetGauge(name, labels) => mcall'.got.num = 0
          /\ ~RegisteredAs(name, Histogram)
                => /\ (\E v \in MetricValues : ObserveHistogram(name, v, labels))
                         => UNCHANGED coll
                   /\ GetHistogram(name, labels) => mcall'.got.list = <<>>]_vars

====
